---- MODULE Spec2Model ----
(***************************************************************************)
(* Order payment-PIN verification workflow of the shop application:       *)
(* shop/models.py (Order), shop/views.py (customer and support views) and  *)
(* shop/admin.py (OrderAdmin views and actions).                           *)
(*                                                                         *)
(* Time is counted in whole seconds.  Strings that the code strips or      *)
(* compares (PINs, form inputs) are sequences of one-character strings.    *)
(***************************************************************************)
EXTENDS Integers, Sequences, FiniteSets, TLC

\* orders:  the stored Order rows
\* now:     the wall clock
\* last:    the operation performed by the latest step and what it returned
\* reqs:    the requests in flight, each with the Order instance it loaded
\* counted: per order, the number of failed verifications that were counted
\*          (the wrong-PIN branch with increment_attempts ran and saved)
\*          since a save last cleared payment_attempts
VARIABLES orders, now, last, reqs, counted

vars == <<orders, now, last, reqs, counted>>

(***************************************************************************)
(* Bounds of the model.                                                    *)
(***************************************************************************)
\* payment_attempts is an unbounded IntegerField; wrong-PIN steps are only
\* taken while the counter is below this cap.
MaxAttempts == 6
\* largest advance of the clock (seconds) between the two timezone.now()
\* reads of generate_payment_pin (models.py lines 251 and 252).
MaxSkew == 1
\* counted failed verifications of one order in the specifications with
\* concurrent requests
MaxFailures == 6

(***************************************************************************)
(* Program constants.                                                      *)
(***************************************************************************)
None == -1                      \* null DateTimeField
NoUser == "None"                \* null ForeignKey / user=None
AttemptLimit == 5               \* payment_attempts >= 5, 5 - payment_attempts
LockoutSeconds == 300           \* total_seconds() < 300
CooldownSeconds == 3600         \* total_seconds() >= 3600
PinLifetime == 24 * 3600        \* timedelta(hours=24)

Orders == {1, 2}
\* the order driven through the full workflow; the other orders only take
\* part in the PIN-uniqueness specification
Tracked == {1}
Users == {"staff"}
Issuers == Users \cup {NoUser}

\* instants at which the wall clock is observed
Instants == {0, 299, 300, 86400, 86401}
\* instants around the end of the 1-hour cooldown and of the PIN lifetime
CooldownInstants == {0, 3599, 3600, 86400, 86401}

\* instants before and at the end of a lockout that started at 0
RequestInstants == {0, 300}

\* values random.choices(string.digits, k=6) may draw (a sample of the 10^6)
PinValues == { <<"1","2","3","4","5","6">>, <<"0","0","0","0","0","0">> }
EmptyStr == << >>

\* candidate inputs: the PINs, a PIN padded with whitespace, a PIN with an
\* inner blank, the empty input
Candidates ==
    PinValues
    \cup { <<" ","1","2","3","4","5","6","\n">>,
           <<"1","2","3"," ","4","5","6">>, EmptyStr }

STATUS_CHOICES ==
    {"PENDING", "PROCESSING", "SHIPPED", "DELIVERED", "CANCELLED", "REFUNDED"}

(***************************************************************************)
(* str.strip(): removes leading and trailing whitespace.                   *)
(***************************************************************************)
IsSpace(c) == c \in {" ", "\t", "\n", "\r"}

RECURSIVE LStrip(_)
LStrip(s) ==
    IF s = << >> THEN s
    ELSE IF IsSpace(Head(s)) THEN LStrip(Tail(s)) ELSE s

RECURSIVE RStrip(_)
RStrip(s) ==
    IF s = << >> THEN s
    ELSE IF IsSpace(s[Len(s)]) THEN RStrip(SubSeq(s, 1, Len(s) - 1)) ELSE s

strip(s) == RStrip(LStrip(s))

(***************************************************************************)
(* Messages returned by the Order methods.                                 *)
(***************************************************************************)
MsgAlreadyConfirmed == "Payment has already been confirmed for this order."
MsgNoPin == "No payment PIN generated for this order. Please contact support."
MsgExpired == "Payment PIN has expired. Please contact support for a new PIN."
MsgLocked == "Too many failed attempts. Please wait 5 minutes and try again."
MsgTooMany == "Invalid payment PIN. Too many failed attempts. Please contact support."
MsgVerified == "Payment PIN verified successfully."
MsgConfirmed == "Payment confirmed successfully. Order is now being processed."
MsgTypeError == "TypeError"     \* datetime compared with None: the call raises

\* generate_payment_pin returns only the PIN; in `last` the message slot of a
\* generation notes whether the order was locked out when it was called
NoteLockedOut == "generated for a locked-out order"

IntStr(n) == <<"0","1","2","3","4","5","6","7","8","9">>[n + 1]
MsgInvalid(attempts_left) ==
    "Invalid payment PIN. " \o IntStr(attempts_left) \o " attempt(s) remaining."

(***************************************************************************)
(* The Order record after construction (field defaults).                   *)
(***************************************************************************)
NewOrder ==
    [ status                   |-> "PENDING",
      payment_status           |-> FALSE,
      payment_pin              |-> EmptyStr,
      payment_pin_generated_at |-> None,
      payment_pin_expires_at   |-> None,
      payment_confirmed_at     |-> None,
      payment_verified_by      |-> NoUser,
      payment_attempts         |-> 0,
      last_payment_attempt     |-> None ]

(***************************************************************************)
(* Order methods, as functions of the record `self` and the clock value t. *)
(* A method that returns a value yields [self |-> record after, ...].      *)
(***************************************************************************)

\* a lookup by PIN value alone, whatever the expiry
pin_in_use_any_expiry(os, pin, t) ==
    \E p \in Orders : os[p].payment_pin = pin

\* Order.objects.filter(payment_pin=pin, payment_pin_expires_at__gt=now).exists()
\* (a null expires_at never satisfies __gt)
pin_in_use(os, pin, t) ==
    \E p \in Orders :
        /\ os[p].payment_pin = pin
        /\ os[p].payment_pin_expires_at # None
        /\ os[p].payment_pin_expires_at > t

\* the values with which the draw loop of generate_payment_pin can end: the
\* draws for which the lookup finds no order
drawable_pins(os, t) == { pin \in PinValues : ~pin_in_use(os, pin, t) }

\* generation that leaves the attempt counter and its time stamp in place
generate_payment_pin_keep_attempts(self, pin, user, t1, t2) ==
    [ self EXCEPT
        !.payment_pin = pin,
        !.payment_pin_generated_at = t1,
        !.payment_pin_expires_at = t2 + PinLifetime,
        !.payment_verified_by = IF user # NoUser THEN user ELSE @ ]

\* body of generate_payment_pin after the draw loop: t1 and t2 are the
\* values of the two timezone.now() reads
generate_payment_pin(self, pin, user, t1, t2) ==
    [ self EXCEPT
        !.payment_pin = pin,
        !.payment_pin_generated_at = t1,
        !.payment_pin_expires_at = t2 + PinLifetime,
        !.payment_attempts = 0,
        !.last_payment_attempt = None,
        !.payment_verified_by = IF user # NoUser THEN user ELSE @ ]

\* `timezone.now() > self.payment_pin_expires_at` with the strict comparison
\* replaced by >=
pin_expired_at_boundary(self, t) == t >= self.payment_pin_expires_at

\* the expiry check of verify_payment_pin
pin_expired(self, t) == t > self.payment_pin_expires_at

\* the rate limit with the 5-minute window closed at its end
is_locked_out_inclusive(self, t) ==
    /\ self.payment_attempts >= AttemptLimit
    /\ self.last_payment_attempt # None
    /\ t - self.last_payment_attempt <= LockoutSeconds

\* the rate-limiting check of verify_payment_pin (and of the customer view)
is_locked_out(self, t) ==
    /\ self.payment_attempts >= AttemptLimit
    /\ self.last_payment_attempt # None
    /\ t - self.last_payment_attempt < LockoutSeconds

\* a failed attempt that is counted but not time-stamped
count_failure_no_stamp(self, t) ==
    [self EXCEPT !.payment_attempts = @ + 1]

\* the wrong-PIN bookkeeping of verify_payment_pin
count_failure(self, t) ==
    [self EXCEPT !.payment_attempts = @ + 1, !.last_payment_attempt = t]

\* verification that looks at the lockout before it looks at the expiry
verify_payment_pin_lockout_first(self, pin, increment_attempts, t) ==
    IF self.payment_status
    THEN [self |-> self, ok |-> FALSE, msg |-> MsgAlreadyConfirmed]
    ELSE IF self.payment_pin = EmptyStr \/ self.payment_pin_generated_at = None
    THEN [self |-> self, ok |-> FALSE, msg |-> MsgNoPin]
    ELSE IF is_locked_out(self, t)
    THEN [self |-> self, ok |-> FALSE, msg |-> MsgLocked]
    ELSE IF self.payment_pin_expires_at = None
    THEN [self |-> self, ok |-> FALSE, msg |-> MsgTypeError]
    ELSE IF pin_expired(self, t)
    THEN [self |-> self, ok |-> FALSE, msg |-> MsgExpired]
    ELSE IF self.payment_pin # strip(pin)
    THEN LET after == IF increment_attempts THEN count_failure(self, t) ELSE self
             attempts_left == AttemptLimit - after.payment_attempts
         IN  [self |-> after, ok |-> FALSE,
              msg |-> IF attempts_left > 0 THEN MsgInvalid(attempts_left)
                      ELSE MsgTooMany]
    ELSE [self |-> self, ok |-> TRUE, msg |-> MsgVerified]

\* verification that counts and time-stamps an attempt refused by the lockout
verify_payment_pin_counts_lockout(self, pin, increment_attempts, t) ==
    IF self.payment_status
    THEN [self |-> self, ok |-> FALSE, msg |-> MsgAlreadyConfirmed]
    ELSE IF self.payment_pin = EmptyStr \/ self.payment_pin_generated_at = None
    THEN [self |-> self, ok |-> FALSE, msg |-> MsgNoPin]
    ELSE IF self.payment_pin_expires_at = None
    THEN [self |-> self, ok |-> FALSE, msg |-> MsgTypeError]
    ELSE IF pin_expired(self, t)
    THEN [self |-> self, ok |-> FALSE, msg |-> MsgExpired]
    ELSE IF is_locked_out(self, t)
    THEN [self |-> IF increment_attempts THEN count_failure(self, t) ELSE self,
          ok |-> FALSE, msg |-> MsgLocked]
    ELSE IF self.payment_pin # strip(pin)
    THEN LET after == IF increment_attempts THEN count_failure(self, t) ELSE self
             attempts_left == AttemptLimit - after.payment_attempts
         IN  [self |-> after, ok |-> FALSE,
              msg |-> IF attempts_left > 0 THEN MsgInvalid(attempts_left)
                      ELSE MsgTooMany]
    ELSE [self |-> self, ok |-> TRUE, msg |-> MsgVerified]

verify_payment_pin(self, pin, increment_attempts, t) ==
    IF self.payment_status
    THEN [self |-> self, ok |-> FALSE, msg |-> MsgAlreadyConfirmed]
    ELSE IF self.payment_pin = EmptyStr \/ self.payment_pin_generated_at = None
    THEN [self |-> self, ok |-> FALSE, msg |-> MsgNoPin]
    ELSE IF self.payment_pin_expires_at = None
    THEN [self |-> self, ok |-> FALSE, msg |-> MsgTypeError]
    ELSE IF pin_expired(self, t)
    THEN [self |-> self, ok |-> FALSE, msg |-> MsgExpired]
    ELSE IF is_locked_out(self, t)
    THEN [self |-> self, ok |-> FALSE, msg |-> MsgLocked]
    ELSE IF self.payment_pin # strip(pin)
    THEN LET after == IF increment_attempts THEN count_failure(self, t) ELSE self
             attempts_left == AttemptLimit - after.payment_attempts
         IN  [self |-> after, ok |-> FALSE,
              msg |-> IF attempts_left > 0 THEN MsgInvalid(attempts_left)
                      ELSE MsgTooMany]
    ELSE [self |-> self, ok |-> TRUE, msg |-> MsgVerified]

\* confirmation that leaves the status of an order that is not PENDING
confirm_payment_pending_only(self, user, t) ==
    [ self |-> [ self EXCEPT
                    !.payment_status = TRUE,
                    !.payment_confirmed_at = t,
                    !.status = IF @ = "PENDING" THEN "PROCESSING" ELSE @,
                    !.payment_verified_by = user,
                    !.payment_pin = EmptyStr,
                    !.payment_attempts = 0,
                    !.last_payment_attempt = None ],
      ok |-> TRUE, msg |-> "Payment confirmed successfully. Order is now being processed." ]

confirm_payment(self, user, t) ==
    [ self |-> [ self EXCEPT
                    !.payment_status = TRUE,
                    !.payment_confirmed_at = t,
                    !.status = "PROCESSING",
                    !.payment_verified_by = user,
                    !.payment_pin = EmptyStr,
                    !.payment_attempts = 0,
                    !.last_payment_attempt = None ],
      ok |-> TRUE, msg |-> MsgConfirmed ]

\* confirmation that does not look at the result of the verification
confirm_payment_with_pin_unchecked(self, pin, user, t) ==
    confirm_payment(verify_payment_pin(self, pin, TRUE, t).self, user, t)

confirm_payment_with_pin(self, pin, user, t) ==
    LET v == verify_payment_pin(self, pin, TRUE, t)
    IN  IF v.ok THEN confirm_payment(v.self, user, t)
        ELSE [self |-> v.self, ok |-> FALSE, msg |-> v.msg]

\* validity that ends one instant early
is_payment_pin_valid_strict(self, t) ==
    IF self.payment_pin = EmptyStr \/ self.payment_pin_expires_at = None
    THEN FALSE
    ELSE t < self.payment_pin_expires_at

is_payment_pin_valid(self, t) ==
    IF self.payment_pin = EmptyStr \/ self.payment_pin_expires_at = None
    THEN FALSE
    ELSE t <= self.payment_pin_expires_at

\* reset that keeps the attempt counter and its time stamp
reset_payment_pin_keep_attempts(self) ==
    [ self EXCEPT
        !.payment_pin = EmptyStr,
        !.payment_pin_generated_at = None,
        !.payment_pin_expires_at = None ]

\* reset that clears the expiry and the attempts but leaves the PIN stored
reset_payment_pin_keep_pin(self) ==
    [ self EXCEPT
        !.payment_pin_expires_at = None,
        !.payment_attempts = 0,
        !.last_payment_attempt = None ]

reset_payment_pin(self) ==
    [ self EXCEPT
        !.payment_pin = EmptyStr,
        !.payment_pin_generated_at = None,
        !.payment_pin_expires_at = None,
        !.payment_attempts = 0,
        !.last_payment_attempt = None ]

\* the cooldown with a strict comparison: a full hour is not yet enough
can_generate_new_pin_strict(self, t) ==
    IF self.payment_pin_generated_at = None THEN TRUE
    ELSE IF ~is_payment_pin_valid(self, t) THEN TRUE
    ELSE t - self.payment_pin_generated_at > CooldownSeconds

can_generate_new_pin(self, t) ==
    IF self.payment_pin_generated_at = None THEN TRUE
    ELSE IF ~is_payment_pin_valid(self, t) THEN TRUE
    ELSE t - self.payment_pin_generated_at >= CooldownSeconds

\* str(n) of a non-negative integer, as formatted by an f-string
RECURSIVE DecStr(_)
DecStr(n) == IF n < 10 THEN IntStr(n) ELSE DecStr(n \div 10) \o IntStr(n % 10)

\* the property Order.payment_pin_expires_in; int() of a non-negative
\* quotient is its floor
payment_pin_expires_in(self, t) ==
    IF self.payment_pin_expires_at = None \/ ~is_payment_pin_valid(self, t)
    THEN "Expired"
    ELSE LET time_left == self.payment_pin_expires_at - t
         IN  IF time_left <= 0 THEN "Expired"
             ELSE IF time_left < 3600
             THEN DecStr(time_left \div 60) \o " minutes"
             ELSE DecStr(time_left \div 3600) \o " hours"

(***************************************************************************)
(* Initial state: every order as constructed, clock at its first instant.  *)
(* `last` records the operation of the latest step, its inputs and result. *)
(***************************************************************************)
Op(op, o, pin, user, ok, msg) ==
    [op |-> op, order |-> o, pin |-> pin, user |-> user, ok |-> ok, msg |-> msg]

\* the requests that may be in flight at the same time
Requests == {"a", "b"}

\* a request that has not loaded an Order instance
Idle == [pc |-> "idle", order |-> 0, self |-> NewOrder, pin |-> EmptyStr]

Init ==
    /\ orders = [o \in Orders |-> NewOrder]
    /\ now = 0
    /\ last = Op("init", 0, EmptyStr, NoUser, TRUE, "")
    /\ reqs = [r \in Requests |-> Idle]
    /\ counted = [o \in Orders |-> 0]

\* the wall clock moves to a later instant
Tick ==
    /\ \E t \in Instants : t > now /\ now' = t
    /\ last' = Op("tick", 0, EmptyStr, NoUser, TRUE, "")
    /\ UNCHANGED orders

\* the clock observed while requests are in flight
TickRequests ==
    /\ \E t \in RequestInstants : t > now /\ now' = t
    /\ last' = Op("tick", 0, EmptyStr, NoUser, TRUE, "")
    /\ UNCHANGED <<orders, reqs, counted>>

TickCooldown ==
    /\ \E t \in CooldownInstants : t > now /\ now' = t
    /\ last' = Op("tick", 0, EmptyStr, NoUser, TRUE, "")
    /\ UNCHANGED orders

(***************************************************************************)
(* Direct calls of the Order methods (the model-layer contract).           *)
(***************************************************************************)
\* the draw loop ends with a value for which the lookup finds no order; the
\* clock may advance up to MaxSkew between the reads of lines 251 and 252
GeneratePin(op, o, user) ==
    \E pin \in drawable_pins(orders, now), t2 \in {now} \cup Instants :
        /\ t2 >= now /\ t2 - now <= MaxSkew
        /\ orders' = [orders EXCEPT ![o] = generate_payment_pin(@, pin, user, now, t2)]
        /\ now' = t2
        /\ last' = Op(op, o, pin, user, TRUE,
                      IF is_locked_out(orders[o], now) THEN NoteLockedOut ELSE "")

Call_generate_payment_pin(o) ==
    \E user \in Issuers : GeneratePin("generate_payment_pin", o, user)

Call_verify_payment_pin(o) ==
    \E pin \in Candidates, inc \in BOOLEAN :
        LET r == verify_payment_pin(orders[o], pin, inc, now) IN
        /\ r.self.payment_attempts <= MaxAttempts
        /\ orders' = [orders EXCEPT ![o] = r.self]
        /\ last' = Op(IF inc THEN "verify_payment_pin" ELSE "verify_payment_pin_noinc",
                      o, pin, NoUser, r.ok, r.msg)
        /\ UNCHANGED now

Call_confirm_payment_with_pin(o) ==
    \E pin \in Candidates, user \in Issuers :
        LET r == confirm_payment_with_pin(orders[o], pin, user, now) IN
        /\ r.self.payment_attempts <= MaxAttempts
        /\ orders' = [orders EXCEPT ![o] = r.self]
        /\ last' = Op("confirm_payment_with_pin", o, pin, user, r.ok, r.msg)
        /\ UNCHANGED now

Call_confirm_payment(o) ==
    \E user \in Issuers :
        LET r == confirm_payment(orders[o], user, now) IN
        /\ orders' = [orders EXCEPT ![o] = r.self]
        /\ last' = Op("confirm_payment", o, EmptyStr, user, r.ok, r.msg)
        /\ UNCHANGED now

Call_reset_payment_pin(o) ==
    /\ orders' = [orders EXCEPT ![o] = reset_payment_pin(@)]
    /\ last' = Op("reset_payment_pin", o, EmptyStr, NoUser, TRUE, "")
    /\ UNCHANGED now

(***************************************************************************)
(* Customer views (shop/views.py).  Only POST requests change state; a GET *)
(* renders a page from the stored order.                                   *)
(***************************************************************************)
\* non-redirecting part of the verify_payment_pin view, POST branch
view_verify_post(self, raw, t) ==
    LET v == verify_payment_pin(self, strip(raw), TRUE, t)
    IN  IF v.ok THEN confirm_payment(v.self, NoUser, t) ELSE v

\* the view's own checks before it looks at the request method
view_verify_redirects(self, t) ==
    \/ self.payment_status
    \/ self.payment_pin = EmptyStr
    \/ ~is_payment_pin_valid(self, t)
    \/ is_locked_out(self, t)

View_verify_payment_pin(o) ==
    \E raw \in Candidates :
        LET self == orders[o]
            r == IF view_verify_redirects(self, now)
                 THEN [self |-> self, ok |-> FALSE, msg |-> "redirect"]
                 ELSE view_verify_post(self, raw, now)
        IN  /\ r.self.payment_attempts <= MaxAttempts
            /\ orders' = [orders EXCEPT ![o] = r.self]
            /\ last' = Op("view_verify_payment_pin", o, raw, NoUser, r.ok, r.msg)
            /\ UNCHANGED now

\* payment_confirmation values a customer may post
Confirmations == { EmptyStr, <<" ">>, <<"T","X","1">> }

view_confirm_payment(self, payment_confirmation) ==
    IF strip(payment_confirmation) # EmptyStr
    THEN [self EXCEPT !.payment_status = TRUE, !.status = "PROCESSING"]
    ELSE self

View_confirm_payment(o) ==
    \E raw \in Confirmations :
        /\ orders' = [orders EXCEPT ![o] = view_confirm_payment(@, raw)]
        /\ last' = Op("view_confirm_payment", o, raw, NoUser,
                      strip(raw) # EmptyStr, "")
        /\ UNCHANGED now

view_cancel_order(self) ==
    IF self.status = "PENDING" THEN [self EXCEPT !.status = "CANCELLED"] ELSE self

View_cancel_order(o) ==
    /\ orders' = [orders EXCEPT ![o] = view_cancel_order(@)]
    /\ last' = Op("view_cancel_order", o, EmptyStr, NoUser,
                  orders[o].status = "PENDING", "")
    /\ UNCHANGED now

(***************************************************************************)
(* Staff view support_payment_management (shop/views.py), one definition   *)
(* per value of the posted `action`.                                       *)
(***************************************************************************)
Rejected(op, o, user) ==
    /\ last' = Op(op, o, EmptyStr, user, FALSE, "rejected")
    /\ UNCHANGED <<orders, now>>

Support_generate_pin(o, user) ==
    IF orders[o].payment_status
    THEN Rejected("support_generate_pin", o, user)
    ELSE GeneratePin("support_generate_pin", o, user)

Support_confirm_payment(o, user) ==
    IF orders[o].payment_status
    THEN Rejected("support_confirm_payment", o, user)
    ELSE LET r == confirm_payment(orders[o], user, now) IN
         /\ orders' = [orders EXCEPT ![o] = r.self]
         /\ last' = Op("support_confirm_payment", o, EmptyStr, user, r.ok, r.msg)
         /\ UNCHANGED now

Support_resend_pin(o, user) ==
    IF orders[o].payment_status \/ ~can_generate_new_pin(orders[o], now)
    THEN Rejected("support_resend_pin", o, user)
    ELSE GeneratePin("support_resend_pin", o, user)

Support_reset_pin(o, user) ==
    IF orders[o].payment_status
    THEN Rejected("support_reset_pin", o, user)
    ELSE /\ orders' = [orders EXCEPT ![o] = reset_payment_pin(@)]
         /\ last' = Op("support_reset_pin", o, EmptyStr, user, TRUE, "")
         /\ UNCHANGED now

\* a 'clear_attempts' branch that saves nothing
clear_attempts_nothing_saved(self) == self

\* a 'clear_attempts' branch that clears the counter and keeps the time stamp
clear_attempts_counter_only(self) ==
    IF self.payment_attempts > 0
    THEN [self EXCEPT !.payment_attempts = 0]
    ELSE self

clear_attempts(self) ==
    IF self.payment_attempts > 0
    THEN [self EXCEPT !.payment_attempts = 0, !.last_payment_attempt = None]
    ELSE self

\* the branch returns a redirect only; in `last` the message slot notes
\* whether the order was locked out when the action was posted
NoteClearedLockout == "cleared for a locked-out order"

Support_clear_attempts(o, user) ==
    /\ orders' = [orders EXCEPT ![o] = clear_attempts(@)]
    /\ last' = Op("support_clear_attempts", o, EmptyStr, user,
                  orders[o].payment_attempts > 0,
                  IF is_locked_out(orders[o], now) THEN NoteClearedLockout ELSE "")
    /\ UNCHANGED now

support_payment_management(o) ==
    \E user \in Users :
        \/ Support_generate_pin(o, user)
        \/ Support_confirm_payment(o, user)
        \/ Support_resend_pin(o, user)
        \/ Support_reset_pin(o, user)
        \/ Support_clear_attempts(o, user)

(***************************************************************************)
(* OrderAdmin (shop/admin.py).  A bulk action runs the same body for each  *)
(* order of its queryset, one after the other, and carries nothing from    *)
(* one order to the next: a step here is the body for one selected order.  *)
(***************************************************************************)
Admin_generate_pin(o, user) ==
    IF orders[o].payment_status
    THEN Rejected("admin_generate_pin", o, user)
    ELSE GeneratePin("admin_generate_pin", o, user)

Admin_confirm_payment(o, user) ==
    IF orders[o].payment_status
    THEN Rejected("admin_confirm_payment", o, user)
    ELSE LET r == confirm_payment(orders[o], user, now) IN
         /\ orders' = [orders EXCEPT ![o] = r.self]
         /\ last' = Op("admin_confirm_payment", o, EmptyStr, user, r.ok, r.msg)
         /\ UNCHANGED now

Admin_reset_pin(o, user) ==
    IF orders[o].payment_status
    THEN Rejected("admin_reset_pin", o, user)
    ELSE /\ orders' = [orders EXCEPT ![o] = reset_payment_pin(@)]
         /\ last' = Op("admin_reset_pin", o, EmptyStr, user, TRUE, "")
         /\ UNCHANGED now

mark_as_processing(self) ==
    IF self.status = "PENDING" /\ self.payment_status
    THEN [self EXCEPT !.status = "PROCESSING"] ELSE self

mark_as_shipped(self) ==
    IF self.status = "PROCESSING" THEN [self EXCEPT !.status = "SHIPPED"] ELSE self

mark_as_delivered(self) ==
    IF self.status = "SHIPPED" THEN [self EXCEPT !.status = "DELIVERED"] ELSE self

mark_as_cancelled(self) ==
    IF self.status \in {"PENDING", "PROCESSING"}
    THEN [self EXCEPT !.status = "CANCELLED"] ELSE self

AdminMark(op, o, user, after) ==
    /\ orders' = [orders EXCEPT ![o] = after]
    /\ last' = Op(op, o, EmptyStr, user, after # orders[o], "")
    /\ UNCHANGED now

Admin_mark_as_processing(o, user) ==
    AdminMark("admin_mark_as_processing", o, user, mark_as_processing(orders[o]))

Admin_mark_as_shipped(o, user) ==
    AdminMark("admin_mark_as_shipped", o, user, mark_as_shipped(orders[o]))

Admin_mark_as_delivered(o, user) ==
    AdminMark("admin_mark_as_delivered", o, user, mark_as_delivered(orders[o]))

Admin_mark_as_cancelled(o, user) ==
    AdminMark("admin_mark_as_cancelled", o, user, mark_as_cancelled(orders[o]))

OrderAdmin(o) ==
    \E user \in Users :
        \/ Admin_generate_pin(o, user)
        \/ Admin_confirm_payment(o, user)
        \/ Admin_reset_pin(o, user)
        \/ Admin_mark_as_processing(o, user)
        \/ Admin_mark_as_shipped(o, user)
        \/ Admin_mark_as_delivered(o, user)
        \/ Admin_mark_as_cancelled(o, user)

CustomerOps ==
    {"view_verify_payment_pin", "view_confirm_payment", "view_cancel_order"}

(***************************************************************************)
(* Concurrent requests.  A view loads its own Order instance               *)
(* (get_object_or_404), works on that instance, and Model.save with        *)
(* update_fields writes the listed columns of the instance over the stored *)
(* row, whatever another request stored in between.  There is no           *)
(* select_for_update and no transaction around a view.                     *)
(***************************************************************************)
\* self.save(update_fields=...) of verify_payment_pin, generate_payment_pin
\* and confirm_payment
VerifySaveFields == {"payment_attempts", "last_payment_attempt"}

GenerateSaveFields ==
    { "payment_pin", "payment_pin_generated_at", "payment_pin_expires_at",
      "payment_attempts", "last_payment_attempt", "payment_verified_by" }

ConfirmSaveFields ==
    { "payment_status", "payment_confirmed_at", "status", "payment_verified_by",
      "payment_pin", "payment_attempts", "last_payment_attempt" }

\* save that writes the counter as stored value + 1 instead of the value of
\* the instance
save_counter_in_database(stored, instance, update_fields) ==
    [ f \in DOMAIN stored |->
        IF f \notin update_fields THEN stored[f]
        ELSE IF f = "payment_attempts" /\ instance[f] > 0 THEN stored[f] + 1
        ELSE instance[f] ]

\* Model.save(update_fields=...): the listed columns of the row take the
\* values of the instance
save(stored, instance, update_fields) ==
    [ f \in DOMAIN stored |->
        IF f \in update_fields THEN instance[f] ELSE stored[f] ]

\* get_object_or_404(Order, id=order_id, ...)
Load(r, o) ==
    /\ reqs[r].pc = "idle"
    /\ reqs' = [reqs EXCEPT ![r] = [pc |-> "loaded", order |-> o,
                                    self |-> orders[o], pin |-> EmptyStr]]
    /\ last' = Op("load", o, EmptyStr, NoUser, TRUE, "")
    /\ UNCHANGED <<orders, now, counted>>

\* rest of a POST to the customer view verify_payment_pin, on the loaded
\* instance: at most one save, by verify_payment_pin (counted failure) or by
\* confirm_payment (correct PIN)
Request_verify_payment_pin(r) ==
    \E raw \in PinValues :
        LET o == reqs[r].order
            self == reqs[r].self
            res == IF view_verify_redirects(self, now)
                   THEN [self |-> self, ok |-> FALSE, msg |-> "redirect"]
                   ELSE view_verify_post(self, raw, now)
            is_counted == ~res.ok /\ res.self # self
            fields == IF res.ok THEN ConfirmSaveFields
                      ELSE IF is_counted THEN VerifySaveFields ELSE {}
        IN  /\ reqs[r].pc = "loaded"
            /\ is_counted => counted[o] < MaxFailures
            /\ orders' = [orders EXCEPT ![o] = save(@, res.self, fields)]
            /\ counted' = [counted EXCEPT ![o] = IF is_counted THEN @ + 1
                                                 ELSE IF res.ok THEN 0 ELSE @]
            /\ reqs' = [reqs EXCEPT ![r] = Idle]
            /\ last' = Op("request_verify_payment_pin", o, raw, NoUser, res.ok, res.msg)
            /\ UNCHANGED now

\* a staff generation up to the end of the draw loop: the payment_status
\* guard of the view on the loaded instance, then the uniqueness lookup
\* against the stored rows
Request_generate_lookup(r) ==
    /\ reqs[r].pc = "loaded"
    /\ IF reqs[r].self.payment_status
       THEN /\ reqs' = [reqs EXCEPT ![r] = Idle]
            /\ last' = Op("request_generate_lookup", reqs[r].order, EmptyStr,
                          "staff", FALSE, "rejected")
       ELSE \E pin \in drawable_pins(orders, now) :
            /\ reqs' = [reqs EXCEPT ![r].pc = "drawn", ![r].pin = pin]
            /\ last' = Op("request_generate_lookup", reqs[r].order, pin,
                          "staff", TRUE, "")
    /\ UNCHANGED <<orders, now, counted>>

\* the draw loop of generate_payment_pin, one step per draw and lookup
\* line 244: the first draw
Draw_first(r) ==
    \E pin \in PinValues :
        /\ reqs[r].pc = "loaded"
        /\ reqs' = [reqs EXCEPT ![r].pc = "drawing", ![r].pin = pin]
        /\ last' = Op("draw_first", reqs[r].order, pin, NoUser, TRUE, "")
        /\ UNCHANGED <<orders, now, counted>>

\* lines 247-248: the lookup finds an order, the loop body draws pin
Draw_again(r, pin) ==
    /\ reqs[r].pc = "drawing"
    /\ pin_in_use(orders, reqs[r].pin, now)
    /\ reqs' = [reqs EXCEPT ![r].pin = pin]
    /\ last' = Op("draw_again", reqs[r].order, reqs[r].pin, NoUser, TRUE, "")
    /\ UNCHANGED <<orders, now, counted>>

\* line 247: the lookup finds no order, the loop ends
Draw_exit(r) ==
    /\ reqs[r].pc = "drawing"
    /\ ~pin_in_use(orders, reqs[r].pin, now)
    /\ reqs' = [reqs EXCEPT ![r].pc = "drawn"]
    /\ last' = Op("draw_exit", reqs[r].order, reqs[r].pin, NoUser, TRUE, "")
    /\ UNCHANGED <<orders, now, counted>>

\* rest of generate_payment_pin: the assignments to the instance and its save
Request_generate_save(r) ==
    \E t2 \in {now} \cup Instants :
        LET o == reqs[r].order
            after == generate_payment_pin(reqs[r].self, reqs[r].pin, "staff", now, t2)
        IN  /\ reqs[r].pc = "drawn"
            /\ t2 >= now /\ t2 - now <= MaxSkew
            /\ orders' = [orders EXCEPT ![o] = save(@, after, GenerateSaveFields)]
            /\ now' = t2
            /\ reqs' = [reqs EXCEPT ![r] = Idle]
            /\ last' = Op("request_generate_save", o, reqs[r].pin, "staff", TRUE, "")
            /\ counted' = [counted EXCEPT ![o] = 0]

(***************************************************************************)
(* Specifications.                                                         *)
(*   Spec:      the model-layer contract: direct calls of the Order        *)
(*              methods in any state of one order, the clock, and the      *)
(*              status transitions made outside the payment workflow.      *)
(*   SpecVerify: verify_payment_pin called in the states that generation,  *)
(*              confirmation and the clock produce.                        *)
(*   SpecViews: one order driven through the customer, support and admin   *)
(*              surfaces only.                                             *)
(*   SpecPins:  generation, reset, confirmation and the clock over all     *)
(*              orders (PIN uniqueness).                                   *)
(*   SpecCooldown: generation, re-issue by support, reset and confirmation *)
(*              of one order, with the clock observed around the end of    *)
(*              the 1-hour cooldown.                                       *)
(*   SpecRequests: two concurrent requests on one order (customer          *)
(*              verification, staff generation).                           *)
(*   SpecRequestPins: two concurrent staff generations over all orders.    *)
(*   SpecDraw:  generations over all orders with the draw loop of          *)
(*              generate_payment_pin taken draw by draw, under fair draws. *)
(***************************************************************************)
NextCalls ==
    \E o \in Tracked :
        \/ Call_generate_payment_pin(o)
        \/ Call_verify_payment_pin(o)
        \/ Call_confirm_payment_with_pin(o)
        \/ Call_confirm_payment(o)
        \/ Call_reset_payment_pin(o)

NextStatus ==
    \E o \in Tracked :
        \/ View_cancel_order(o)
        \/ \E user \in Users :
            \/ Admin_mark_as_processing(o, user)
            \/ Admin_mark_as_shipped(o, user)
            \/ Admin_mark_as_delivered(o, user)
            \/ Admin_mark_as_cancelled(o, user)

\* in the specifications below every request runs from its load to its save
\* without another request in between
Sequential == UNCHANGED <<reqs, counted>>

Next == (Tick \/ NextCalls \/ NextStatus) /\ Sequential

\* verifications of one order in the states generation, confirmation and
\* the clock produce
NextVerify ==
    /\ Sequential
    /\ \/ Tick
       \/ \E o \in Tracked :
           \/ Call_generate_payment_pin(o)
           \/ Call_verify_payment_pin(o)
           \/ Call_confirm_payment(o)

NextViews ==
    /\ Sequential
    /\ \/ Tick
       \/ \E o \in Tracked :
           \/ View_verify_payment_pin(o)
           \/ View_confirm_payment(o)
           \/ View_cancel_order(o)
           \/ support_payment_management(o)
           \/ OrderAdmin(o)

NextPins ==
    /\ Sequential
    /\ \/ Tick
       \/ \E o \in Orders :
           \/ Call_generate_payment_pin(o)
           \/ Call_reset_payment_pin(o)
           \/ Call_confirm_payment(o)

NextCooldown ==
    /\ Sequential
    /\ \/ TickCooldown
       \/ \E o \in Tracked :
           \/ Call_generate_payment_pin(o)
           \/ Call_reset_payment_pin(o)
           \/ Call_confirm_payment(o)
           \/ \E user \in Users : Support_resend_pin(o, user)

\* requests on one order: customer verifications and staff generations
NextRequests ==
    \/ TickRequests
    \/ \E r \in Requests :
        \/ \E o \in Tracked : Load(r, o)
        \/ Request_verify_payment_pin(r)
        \/ Request_generate_lookup(r)
        \/ Request_generate_save(r)

\* staff generations on all orders
NextRequestPins ==
    \/ Tick /\ Sequential
    \/ \E r \in Requests :
        \/ \E o \in Orders : Load(r, o)
        \/ Request_generate_lookup(r)
        \/ Request_generate_save(r)

\* generations of one request at a time over all orders, the draw loop
\* taken one draw at a time
NextDraw ==
    \/ Tick /\ Sequential
    \/ \E o \in Orders : Load("a", o)
    \/ Draw_first("a")
    \/ \E pin \in PinValues : Draw_again("a", pin)
    \/ Draw_exit("a")
    \/ Request_generate_save("a")

\* random.choices draws every value again and again, and a running call
\* keeps running
FairDraws ==
    /\ \A pin \in PinValues : WF_vars(Draw_again("a", pin))
    /\ WF_vars(Draw_exit("a"))

Spec == Init /\ [][Next]_vars

SpecVerify == Init /\ [][NextVerify]_vars

SpecDraw == Init /\ [][NextDraw]_vars /\ FairDraws

SpecRequests == Init /\ [][NextRequests]_vars

SpecRequestPins == Init /\ [][NextRequestPins]_vars

SpecCooldown == Init /\ [][NextCooldown]_vars

SpecViews == Init /\ [][NextViews]_vars

SpecPins == Init /\ [][NextPins]_vars

(***************************************************************************)
(* Properties.  Every step sets `last` to the operation it performed, so   *)
(* an action formula recognises the step by last' and reads the state the  *)
(* call started from in the unprimed variables.                            *)
(***************************************************************************)
VerifyOps == {"verify_payment_pin", "verify_payment_pin_noinc"}
ResetOps == {"reset_payment_pin", "support_reset_pin", "admin_reset_pin"}

\* the order is inside the lockout window at time t
InLockout(self, t) ==
    /\ self.payment_attempts >= 5
    /\ self.last_payment_attempt # None
    /\ t - self.last_payment_attempt < 300

\* checks 1-4 of the verification pass: the call reaches the PIN comparison
ReachesComparison(self, t) ==
    /\ ~self.payment_status
    /\ self.payment_pin # EmptyStr
    /\ self.payment_pin_generated_at # None
    /\ self.payment_pin_expires_at # None
    /\ t <= self.payment_pin_expires_at
    /\ ~InLockout(self, t)

\* the stated condition for a successful verification of candidate pin
VerifySucceeds(self, pin, t) ==
    /\ ReachesComparison(self, t)
    /\ strip(pin) = self.payment_pin

\* C1: verify_payment_pin(candidate) returns success if and only if, at call
\* time, payment is not confirmed, a PIN is stored and its generation time is
\* set, now <= payment_pin_expires_at, the order is not locked out, and the
\* candidate stripped of surrounding whitespace equals the stored PIN.
C1_VerifySuccessIff ==
    [][ \A o \in Orders :
          (last'.op \in VerifyOps /\ last'.order = o)
          => (last'.ok <=> VerifySucceeds(orders[o], last'.pin, now)) ]_vars

\* a padded candidate was accepted: stripping made the difference
C1_Witness ==
    /\ last.op \in VerifyOps
    /\ last.ok
    /\ last.pin # orders[last.order].payment_pin

\* C2: in every reachable state payment_status = true implies payment_pin is
\* empty, payment_attempts = 0 and last_payment_attempt is null.
C2_ConfirmedIsScrubbed ==
    \A o \in Orders :
        orders[o].payment_status
        => /\ orders[o].payment_pin = EmptyStr
           /\ orders[o].payment_attempts = 0
           /\ orders[o].last_payment_attempt = None

\* C3: once 5 failed attempts are counted on an unexpired PIN, every
\* verification, the correct PIN included, fails with the lockout message
\* while less than 5 minutes have passed since last_payment_attempt; from 5
\* minutes on the correct PIN succeeds.
C3_LockoutWindow ==
    [][ \A o \in Orders :
          ( /\ last'.op \in VerifyOps /\ last'.order = o
            /\ ~orders[o].payment_status
            /\ orders[o].payment_pin # EmptyStr
            /\ orders[o].payment_pin_generated_at # None
            /\ orders[o].payment_pin_expires_at # None
            /\ now <= orders[o].payment_pin_expires_at
            /\ orders[o].payment_attempts >= 5 )
          => /\ orders[o].last_payment_attempt # None
             /\ IF now - orders[o].last_payment_attempt < 300
                THEN ~last'.ok /\ last'.msg = MsgLocked
                ELSE strip(last'.pin) = orders[o].payment_pin => last'.ok ]_vars

\* the correct PIN was accepted on an order with 5 counted failures, 5
\* minutes or more after the last of them
C3_Witness ==
    /\ last.op \in VerifyOps
    /\ last.ok
    /\ orders[last.order].payment_attempts >= 5
    /\ now - orders[last.order].last_payment_attempt >= 300

\* C4: when verify_payment_pin reaches the comparison and the candidate does
\* not match, increment_attempts=true adds exactly 1 to payment_attempts and
\* sets last_payment_attempt to the current time; increment_attempts=false
\* changes neither field.
C4_WrongPinCounted ==
    [][ \A o \in Orders :
          ( /\ last'.op \in VerifyOps /\ last'.order = o
            /\ ReachesComparison(orders[o], now)
            /\ strip(last'.pin) # orders[o].payment_pin )
          => IF last'.op = "verify_payment_pin"
             THEN /\ orders'[o].payment_attempts = orders[o].payment_attempts + 1
                  /\ orders'[o].last_payment_attempt = now
             ELSE /\ orders'[o].payment_attempts = orders[o].payment_attempts
                  /\ orders'[o].last_payment_attempt = orders[o].last_payment_attempt
       ]_vars

\* a counted failure at a later instant than the PIN's generation
C4_Witness ==
    /\ last.op = "verify_payment_pin"
    /\ ~last.ok
    /\ orders[last.order].payment_attempts >= 2
    /\ orders[last.order].last_payment_attempt = now
    /\ orders[last.order].payment_pin_generated_at < now

\* C5: confirm_payment(issuer), called in any state, returns success and
\* leaves payment_status = true, payment_confirmed_at = now, status =
\* PROCESSING, payment_verified_by = issuer, payment_pin empty,
\* payment_attempts = 0 and last_payment_attempt null.
C5_ConfirmUnconditional ==
    [][ \A o \in Orders :
          (last'.op = "confirm_payment" /\ last'.order = o)
          => /\ last'.ok
             /\ orders'[o].payment_status
             /\ orders'[o].payment_confirmed_at = now
             /\ orders'[o].status = "PROCESSING"
             /\ orders'[o].payment_verified_by = last'.user
             /\ orders'[o].payment_pin = EmptyStr
             /\ orders'[o].payment_attempts = 0
             /\ orders'[o].last_payment_attempt = None ]_vars

\* a confirmation without issuer, later than the generation of a PIN
C5_Witness ==
    /\ last.op = "confirm_payment"
    /\ last.user = NoUser
    /\ orders[last.order].payment_pin_generated_at # None
    /\ orders[last.order].payment_confirmed_at > orders[last.order].payment_pin_generated_at

\* the order holds a PIN that is_payment_pin_valid accepts at time t
HoldsValidPin(self, t) ==
    /\ self.payment_pin # EmptyStr
    /\ self.payment_pin_expires_at # None
    /\ t <= self.payment_pin_expires_at

\* C6: no two distinct orders hold the same PIN value while both PINs are
\* valid (non-empty and now <= payment_pin_expires_at), the instant
\* now = payment_pin_expires_at of one of them included.
C6_NoSharedValidPin ==
    \A a, b \in Orders :
        ( /\ a # b
          /\ HoldsValidPin(orders[a], now)
          /\ HoldsValidPin(orders[b], now) )
        => orders[a].payment_pin # orders[b].payment_pin

\* C7: payment_pin_expires_at is set if and only if payment_pin_generated_at
\* is set, and when set it equals payment_pin_generated_at plus exactly 24
\* hours, for every generation.
C7_ExpiryIs24hAfterGeneration ==
    \A o \in Orders :
        /\ orders[o].payment_pin_expires_at # None
             <=> orders[o].payment_pin_generated_at # None
        /\ orders[o].payment_pin_expires_at # None
             => orders[o].payment_pin_expires_at
                  = orders[o].payment_pin_generated_at + 24 * 3600

\* C8: confirm_payment_with_pin(candidate, issuer) confirms the payment
\* exactly when the verification of the candidate succeeds; otherwise it
\* returns (false, the verification message) and leaves payment_status,
\* status, payment_confirmed_at and payment_pin as they were.
C8_ConfirmWithPin ==
    [][ \A o \in Orders :
          (last'.op = "confirm_payment_with_pin" /\ last'.order = o)
          => IF VerifySucceeds(orders[o], last'.pin, now)
             THEN /\ last'.ok
                  /\ orders'[o].payment_status
                  /\ orders'[o].status = "PROCESSING"
                  /\ orders'[o].payment_confirmed_at = now
                  /\ orders'[o].payment_verified_by = last'.user
                  /\ orders'[o].payment_pin = EmptyStr
             ELSE /\ ~last'.ok
                  /\ last'.msg = verify_payment_pin(orders[o], last'.pin, TRUE, now).msg
                  /\ orders'[o].payment_status = orders[o].payment_status
                  /\ orders'[o].status = orders[o].status
                  /\ orders'[o].payment_confirmed_at = orders[o].payment_confirmed_at
                  /\ orders'[o].payment_pin = orders[o].payment_pin ]_vars

\* a wrong candidate was refused and counted, the PIN stays in place
C8_Witness ==
    /\ last.op = "confirm_payment_with_pin"
    /\ ~last.ok
    /\ orders[last.order].last_payment_attempt = now
    /\ orders[last.order].payment_pin # EmptyStr
    /\ ~orders[last.order].payment_status

\* C9: on the customer-facing surface payment_status changes from false to
\* true only in a step in which the verification succeeded against the PIN
\* stored for the order.
C9_CustomerConfirmsOnlyWithPin ==
    [][ \A o \in Orders :
          ( /\ ~orders[o].payment_status
            /\ orders'[o].payment_status
            /\ last'.op \in CustomerOps )
          => /\ last'.op = "view_verify_payment_pin"
             /\ VerifySucceeds(orders[o], last'.pin, now) ]_vars

\* the effect of reset_payment_pin on the fields, and its frame
ResetEffect(pre, post) ==
    /\ post.payment_pin = EmptyStr
    /\ post.payment_pin_generated_at = None
    /\ post.payment_pin_expires_at = None
    /\ post.payment_attempts = 0
    /\ post.last_payment_attempt = None
    /\ post.payment_status = pre.payment_status
    /\ post.status = pre.status
    /\ post.payment_confirmed_at = pre.payment_confirmed_at
    /\ post.payment_verified_by = pre.payment_verified_by

\* C10 as stated: reset_payment_pin clears the five PIN fields and leaves
\* payment_status, status, payment_confirmed_at and payment_verified_by;
\* afterwards verify_payment_pin fails with the 'no PIN generated' message
\* for every candidate and can_generate_new_pin is true.
C10_ResetThenNoPin ==
    [][ \A o \in Orders :
          (last'.op \in ResetOps /\ last'.ok /\ last'.order = o)
          => /\ ResetEffect(orders[o], orders'[o])
             /\ \A pin \in Candidates, inc \in BOOLEAN :
                   LET v == verify_payment_pin(orders'[o], pin, inc, now')
                   IN  ~v.ok /\ v.msg = MsgNoPin
             /\ can_generate_new_pin(orders'[o], now') ]_vars

\* C10 (amended): as above, except that the message of the failing
\* verification is 'no PIN generated' when payment_status is false and
\* 'already confirmed' when payment_status is true.
C10_ResetThenNoPinUnlessConfirmed ==
    [][ \A o \in Orders :
          (last'.op \in ResetOps /\ last'.ok /\ last'.order = o)
          => /\ ResetEffect(orders[o], orders'[o])
             /\ \A pin \in Candidates, inc \in BOOLEAN :
                   LET v == verify_payment_pin(orders'[o], pin, inc, now')
                   IN  /\ ~v.ok
                       /\ v.self = orders'[o]
                       /\ v.msg = IF orders'[o].payment_status
                                  THEN MsgAlreadyConfirmed ELSE MsgNoPin
             /\ can_generate_new_pin(orders'[o], now') ]_vars

\* a reset of an unconfirmed order whose PIN was issued by staff:
\* payment_verified_by is kept
C10_Witness ==
    /\ last.op \in ResetOps
    /\ last.ok
    /\ orders[last.order].payment_pin = EmptyStr
    /\ orders[last.order].payment_verified_by # NoUser
    /\ ~orders[last.order].payment_status

\* the stated condition under which a new PIN may be generated at time t
MayGenerate(self, t) ==
    \/ self.payment_pin_generated_at = None
    \/ self.payment_pin = EmptyStr
    \/ t > self.payment_pin_expires_at
    \/ t - self.payment_pin_generated_at >= 3600

\* C11: can_generate_new_pin is true exactly when no PIN has been generated,
\* or the current PIN is not valid (empty or now > payment_pin_expires_at),
\* or at least 1 hour has passed since payment_pin_generated_at; it is true
\* on a new order and false immediately after generate_payment_pin, and the
\* support re-issue, which asks it, generates exactly when it is true.
C11_CanGenerateNewPin ==
    [][ /\ can_generate_new_pin(NewOrder, now)
        /\ \A o \in Orders :
            /\ can_generate_new_pin(orders[o], now) <=> MayGenerate(orders[o], now)
            /\ can_generate_new_pin(orders'[o], now') <=> MayGenerate(orders'[o], now')
            /\ (last'.op = "generate_payment_pin" /\ last'.order = o)
                 => ~can_generate_new_pin(orders'[o], now')
            /\ (last'.op = "support_resend_pin" /\ last'.order = o)
                 => (last'.ok <=> (~orders[o].payment_status
                                    /\ MayGenerate(orders[o], now))) ]_vars

\* a valid PIN exactly one hour after its generation: only the cooldown
\* clause makes a new generation possible
C11_Witness ==
    \E o \in Orders :
        /\ HoldsValidPin(orders[o], now)
        /\ orders[o].payment_pin_generated_at # None
        /\ now - orders[o].payment_pin_generated_at = 3600
        /\ can_generate_new_pin(orders[o], now)

\* the PIN values not held as a valid PIN by an order other than o
FreeForOrder(o) ==
    { pin \in PinValues :
        ~\E p \in Orders \ {o} :
            orders[p].payment_pin = pin /\ HoldsValidPin(orders[p], now) }

\* C12: the values generate_payment_pin can return for order o are exactly
\* the PIN values that no order different from o holds as an unexpired PIN;
\* the order's own current PIN does not force a re-draw.
C12_ReturnableValues ==
    \A o \in Orders : drawable_pins(orders, now) = FreeForOrder(o)

\* C13: generate_payment_pin resets payment_attempts to 0 and
\* last_payment_attempt to null and leaves payment_status, status and
\* payment_confirmed_at unchanged; an unconfirmed order, locked out or not,
\* accepts the new PIN immediately after the generation.
C13_GenerateResetsAttempts ==
    [][ \A o \in Orders :
          (last'.op = "generate_payment_pin" /\ last'.order = o)
          => /\ orders'[o].payment_pin = last'.pin
             /\ orders'[o].payment_attempts = 0
             /\ orders'[o].last_payment_attempt = None
             /\ orders'[o].payment_status = orders[o].payment_status
             /\ orders'[o].status = orders[o].status
             /\ orders'[o].payment_confirmed_at = orders[o].payment_confirmed_at
             /\ ~orders[o].payment_status
                  => verify_payment_pin(orders'[o], last'.pin, TRUE, now').ok ]_vars

\* a PIN was generated for an order that was inside its lockout window
C13_Witness ==
    /\ last.op = "generate_payment_pin"
    /\ last.msg = NoteLockedOut
    /\ orders[last.order].payment_attempts = 0
    /\ ~orders[last.order].payment_status

\* C14: after generate_payment_pin(issuer), payment_verified_by equals the
\* issuer passed to the call, the absent issuer included.
C14_GenerateRecordsIssuer ==
    [][ \A o \in Orders :
          (last'.op = "generate_payment_pin" /\ last'.order = o)
          => orders'[o].payment_verified_by = last'.user ]_vars

\* C15: is_payment_pin_valid is true if and only if payment_pin is non-empty
\* and now <= payment_pin_expires_at, and it agrees with the expiry check of
\* verify_payment_pin: a verification of an unconfirmed order with a PIN
\* reports 'expired' exactly when the PIN is not valid; at
\* now = payment_pin_expires_at the correct PIN still verifies.
C15_ValidityAgreesWithVerify ==
    [][ \A o \in Orders :
          /\ is_payment_pin_valid(orders[o], now) <=> HoldsValidPin(orders[o], now)
          /\ is_payment_pin_valid(orders'[o], now') <=> HoldsValidPin(orders'[o], now')
          /\ ( /\ last'.op \in VerifyOps /\ last'.order = o
               /\ ~orders[o].payment_status
               /\ orders[o].payment_pin # EmptyStr
               /\ orders[o].payment_pin_generated_at # None )
             => /\ last'.msg = MsgExpired <=> ~is_payment_pin_valid(orders[o], now)
                /\ now > orders[o].payment_pin_expires_at
                     => ~last'.ok /\ last'.msg = MsgExpired
                /\ ( /\ now = orders[o].payment_pin_expires_at
                     /\ ~InLockout(orders[o], now)
                     /\ strip(last'.pin) = orders[o].payment_pin )
                     => last'.ok ]_vars

\* the correct PIN verified at the very instant of its expiry
C15_Witness ==
    /\ last.op \in VerifyOps
    /\ last.ok
    /\ now = orders[last.order].payment_pin_expires_at

\* C16: payment_pin_expires_in returns "Expired" exactly when the PIN is not
\* valid; whenever the PIN is valid, now = payment_pin_expires_at included, it
\* returns the remaining time as floor(seconds/60) minutes if less than 1
\* hour remains and as floor(seconds/3600) hours otherwise.
C16_ExpiresIn ==
    \A o \in Orders :
        LET self == orders[o]
            remaining == self.payment_pin_expires_at - now
        IN  payment_pin_expires_in(self, now) =
              IF ~HoldsValidPin(self, now) THEN "Expired"
              ELSE IF remaining < 3600
              THEN DecStr(remaining \div 60) \o " minutes"
              ELSE DecStr(remaining \div 3600) \o " hours"

\* the messages verify_payment_pin returns without raising
VerifyMessages ==
    { MsgAlreadyConfirmed, MsgNoPin, MsgExpired, MsgLocked, MsgTooMany, MsgVerified }
    \cup { MsgInvalid(n) : n \in 1..5 }

\* C17: for every reachable order state and every candidate string
\* verify_payment_pin returns a (bool, message) pair and never raises:
\* whenever payment_pin is non-empty and payment_pin_generated_at is set,
\* payment_pin_expires_at is set too.
C17_VerifyNeverRaises ==
    [][ \A o \in Orders :
          /\ (orders[o].payment_pin # EmptyStr /\ orders[o].payment_pin_generated_at # None)
               => orders[o].payment_pin_expires_at # None
          /\ (orders'[o].payment_pin # EmptyStr /\ orders'[o].payment_pin_generated_at # None)
               => orders'[o].payment_pin_expires_at # None
          /\ (last'.op \in VerifyOps /\ last'.order = o)
               => /\ last'.ok \in BOOLEAN
                  /\ last'.msg \in VerifyMessages ]_vars

\* a verification that evaluated the expiry comparison on a stored PIN
C17_Witness ==
    /\ last.op \in VerifyOps
    /\ last.msg = MsgExpired
    /\ orders[last.order].payment_pin # EmptyStr
    /\ orders[last.order].payment_pin_expires_at # None
    /\ orders[last.order].payment_attempts > 0

\* the operations whose handler calls Order.confirm_payment
ConfirmOps ==
    { "confirm_payment", "confirm_payment_with_pin", "view_verify_payment_pin",
      "support_confirm_payment", "admin_confirm_payment" }

\* C18: an order's status changes from PENDING to PROCESSING only in a step
\* that runs Order.confirm_payment; no other operation (customer
\* confirm_payment view, admin mark_as_processing, generation, verification,
\* reset) makes that transition.
C18_ProcessingOnlyViaConfirm ==
    [][ \A o \in Orders :
          (orders[o].status = "PENDING" /\ orders'[o].status = "PROCESSING")
            => /\ last'.op \in ConfirmOps
               /\ last'.order = o
               /\ orders'[o].payment_status
               /\ orders'[o].payment_pin = EmptyStr ]_vars

\* the operations of the customer and staff payment surfaces
PaymentSurfaceOps ==
    { "view_verify_payment_pin", "view_confirm_payment",
      "support_generate_pin", "support_confirm_payment", "support_resend_pin",
      "support_reset_pin", "support_clear_attempts",
      "admin_generate_pin", "admin_confirm_payment", "admin_reset_pin" }

\* the fields the payment workflow owns
PaymentFields(self) ==
    << self.payment_status, self.payment_pin, self.payment_pin_generated_at,
       self.payment_pin_expires_at, self.payment_attempts,
       self.payment_confirmed_at, self.payment_verified_by, self.status >>

\* C19: payment_status = true is terminal: on a confirmed order no operation
\* of the customer or staff payment surfaces sets payment_status back to
\* false or changes payment_pin, payment_pin_generated_at,
\* payment_pin_expires_at, payment_attempts, payment_confirmed_at,
\* payment_verified_by or status.
C19_ConfirmedIsTerminal ==
    [][ \A o \in Orders :
          (orders[o].payment_status /\ last'.op \in PaymentSurfaceOps /\ last'.order = o)
            => PaymentFields(orders'[o]) = PaymentFields(orders[o]) ]_vars

\* the staff operations that issue a PIN
StaffGenerateOps ==
    { "support_generate_pin", "support_resend_pin", "admin_generate_pin" }

\* C20: through the staff surfaces a new PIN is never generated for an order
\* while its current PIN is still valid and less than 1 hour old: every
\* generation happens in a state where can_generate_new_pin is true.
C20_StaffGenerationRespectsCooldown ==
    [][ (last'.op \in StaffGenerateOps /\ last'.ok)
          => can_generate_new_pin(orders[last'.order], now) ]_vars

\* a verification of the order at time t is refused by the lockout check:
\* payment not confirmed, a PIN stored and unexpired, 5 failures counted
\* and the last of them less than 5 minutes before t
LockedOutUnexpired(self, t) ==
    /\ ~self.payment_status
    /\ self.payment_pin # EmptyStr
    /\ self.payment_pin_generated_at # None
    /\ self.payment_pin_expires_at # None
    /\ t <= self.payment_pin_expires_at
    /\ InLockout(self, t)

\* C21: the lockout is never permanent: from a locked-out state with an
\* unexpired PIN, the clock reaching 5 minutes after last_payment_attempt
\* (the PIN still unexpired), or the staff 'clear_attempts' action, which
\* sets payment_attempts = 0 and last_payment_attempt = null and leaves the
\* PIN and its expiry unchanged, gives a state in which verify_payment_pin
\* with the correct PIN succeeds.
C21_LockoutNotPermanent ==
    [][ \A o \in Orders :
          LockedOutUnexpired(orders[o], now)
          => /\ (last'.op = "support_clear_attempts" /\ last'.order = o)
                  => /\ orders'[o] = [orders[o] EXCEPT !.payment_attempts = 0,
                                                       !.last_payment_attempt = None]
                     /\ verify_payment_pin(orders'[o], orders[o].payment_pin,
                                           TRUE, now').ok
             /\ ( /\ last'.op = "tick"
                  /\ now' - orders[o].last_payment_attempt >= 300
                  /\ now' <= orders[o].payment_pin_expires_at )
                  => verify_payment_pin(orders'[o], orders[o].payment_pin,
                                        TRUE, now').ok ]_vars

\* staff cleared the attempts of a locked-out order whose PIN is unexpired
C21_Witness ==
    /\ last.op = "support_clear_attempts"
    /\ last.msg = NoteClearedLockout
    /\ ~orders[last.order].payment_status
    /\ orders[last.order].payment_pin # EmptyStr
    /\ now <= orders[last.order].payment_pin_expires_at
    /\ orders[last.order].payment_attempts = 0

\* the messages of the wrong-PIN branch
WrongPinMessages == { MsgInvalid(n) : n \in 1..5 } \cup { MsgTooMany }

\* C22: when several failure conditions of verify_payment_pin hold at once
\* the result is that of the earliest check in the order already confirmed,
\* no PIN generated, expired, locked out, wrong PIN: an expired PIN on a
\* locked-out order reports 'expired', a confirmed order reports 'already
\* confirmed' whatever its PIN state.
C22_EarliestCheckWins ==
    [][ \A o \in Orders :
          (last'.op \in VerifyOps /\ last'.order = o)
          => LET self == orders[o] IN
             IF self.payment_status
             THEN ~last'.ok /\ last'.msg = MsgAlreadyConfirmed
             ELSE IF self.payment_pin = EmptyStr \/ self.payment_pin_generated_at = None
             THEN ~last'.ok /\ last'.msg = MsgNoPin
             ELSE IF now > self.payment_pin_expires_at
             THEN ~last'.ok /\ last'.msg = MsgExpired
             ELSE IF InLockout(self, now)
             THEN ~last'.ok /\ last'.msg = MsgLocked
             ELSE IF strip(last'.pin) # self.payment_pin
             THEN ~last'.ok /\ last'.msg \in WrongPinMessages
             ELSE last'.ok ]_vars

\* a wrong PIN on an order that is inside the lockout window and whose PIN
\* has expired was answered with the expiry message
C22_Witness ==
    /\ last.op \in VerifyOps
    /\ last.msg = MsgExpired
    /\ InLockout(orders[last.order], now)
    /\ now > orders[last.order].payment_pin_expires_at
    /\ strip(last.pin) # orders[last.order].payment_pin

\* C23: verify_payment_pin changes order state only in the wrong-PIN branch
\* with increment_attempts=true (payment_attempts and last_payment_attempt,
\* nothing else); a successful verification and every failure by the
\* already-confirmed, no-PIN, expired or lockout checks leave all fields
\* unchanged, so attempts made during a lockout neither increase
\* payment_attempts nor move last_payment_attempt.
C23_VerifyFrame ==
    [][ \A o \in Orders :
          (last'.op \in VerifyOps /\ last'.order = o)
          => /\ \A p \in Orders \ {o} : orders'[p] = orders[p]
             /\ now' = now
             /\ IF /\ ReachesComparison(orders[o], now)
                   /\ strip(last'.pin) # orders[o].payment_pin
                   /\ last'.op = "verify_payment_pin"
                THEN orders'[o] = [orders[o] EXCEPT
                                     !.payment_attempts = @ + 1,
                                     !.last_payment_attempt = now]
                ELSE orders'[o] = orders[o] ]_vars

\* an attempt refused by the lockout at a later instant than the last
\* counted failure: the time stamp stayed where it was
C23_Witness ==
    /\ last.op = "verify_payment_pin"
    /\ last.msg = MsgLocked
    /\ orders[last.order].payment_attempts = 5
    /\ orders[last.order].last_payment_attempt < now

\* request r finished in this step
Finished(r) == reqs[r].pc # "idle" /\ reqs'[r].pc = "idle"

\* C24: two concurrent requests on the same order each work on their own
\* loaded copy and persist only payment_attempts and last_payment_attempt:
\* a counted failure stores the copy's counter + 1 and the current time over
\* the row, whatever the row holds, and changes no other column.  A lost
\* update is reachable: both read payment_attempts = 4, both fail, and the
\* stored counter ends at 5 although 6 failures were counted.
C24_CounterWrittenFromCopy ==
    [][ \A r \in Requests :
          ( /\ Finished(r)
            /\ last'.op = "request_verify_payment_pin"
            /\ counted'[reqs[r].order] = counted[reqs[r].order] + 1 )
          => LET o == reqs[r].order IN
             orders'[o] = [orders[o] EXCEPT
                             !.payment_attempts = reqs[r].self.payment_attempts + 1,
                             !.last_payment_attempt = now] ]_vars

\* the lost update: 6 failures were counted since the counter was last
\* cleared and the stored counter is 5
C24_Witness ==
    /\ last.op = "request_verify_payment_pin"
    /\ ~last.ok
    /\ counted[last.order] = 6
    /\ orders[last.order].payment_attempts = 5

\* C25: under interleaved generate_payment_pin calls on two different
\* orders, the uniqueness lookup and the later save of each call being
\* separate steps, two orders never hold the same PIN value with both
\* expiry times still ahead of the clock.
C25_NoSharedUnexpiredPin ==
    \A o1 \in Orders, o2 \in Orders :
        ( /\ o1 # o2
          /\ orders[o1].payment_pin # EmptyStr
          /\ orders[o1].payment_pin = orders[o2].payment_pin
          /\ orders[o1].payment_pin_expires_at # None
          /\ orders[o2].payment_pin_expires_at # None )
        => ~( /\ orders[o1].payment_pin_expires_at > now
              /\ orders[o2].payment_pin_expires_at > now )

\* C26: under concurrent requests on the same order, each on its own loaded
\* copy and saving with update_fields, the stored row of a confirmed order
\* stays scrubbed and is confirmed once: no later save leaves payment_status
\* = true together with a non-empty payment_pin or payment_attempts > 0, or
\* overwrites payment_confirmed_at.
C26_ConfirmedRowStaysScrubbed ==
    [][ \A o \in Orders :
          orders[o].payment_status
          => /\ orders'[o].payment_status
             /\ orders'[o].payment_pin = EmptyStr
             /\ orders'[o].payment_attempts = 0
             /\ orders'[o].payment_confirmed_at = orders[o].payment_confirmed_at ]_vars

\* C27: an order whose status is CANCELLED, SHIPPED, DELIVERED or REFUNDED
\* never has its status set to PROCESSING by the payment workflow: through
\* the customer PIN-verification view, the customer confirm_payment view and
\* the staff/admin confirm actions, status becomes PROCESSING only from
\* PENDING.
C27_ProcessingOnlyFromPending ==
    [][ \A o \in Orders :
          ( /\ last'.op \in ConfirmOps \cup {"view_confirm_payment"}
            /\ last'.order = o
            /\ orders'[o].status = "PROCESSING"
            /\ orders[o].status # "PROCESSING" )
          => orders[o].status = "PENDING" ]_vars

\* C28: in every reachable state payment_attempts = 0 if and only if
\* last_payment_attempt is null: the counter and the time stamp are set
\* together (failed verification) and cleared together (generate, reset,
\* confirm, clear_attempts), so the lockout check never sees
\* payment_attempts >= 5 with a null last_payment_attempt.
C28_CounterAndStampTogether ==
    \A o \in Orders :
        /\ orders[o].payment_attempts = 0 <=> orders[o].last_payment_attempt = None
        /\ orders[o].payment_attempts >= 5 => orders[o].last_payment_attempt # None

\* staff cleared a counter that was above 0: counter and time stamp are
\* both cleared
C28_Witness ==
    /\ last.op = "support_clear_attempts"
    /\ last.ok
    /\ orders[last.order].payment_attempts = 0
    /\ orders[last.order].last_payment_attempt = None
    /\ orders[last.order].payment_pin # EmptyStr

\* `5 - order.payment_attempts`, shown by the customer views
attempts_remaining(self) == AttemptLimit - self.payment_attempts

\* C29: in every reachable state 0 <= payment_attempts <= 5, so the
\* attempts_remaining value exposed by the customer views is never
\* negative, also when wrong PINs are submitted after a lockout window has
\* elapsed.
C29_AttemptsWithinLimit ==
    \A o \in Orders :
        /\ orders[o].payment_attempts >= 0
        /\ orders[o].payment_attempts <= 5
        /\ attempts_remaining(orders[o]) >= 0

\* some stored order, the one being regenerated included, holds pin with an
\* expiry time ahead of t
HeldUnexpired(pin, t) ==
    \E p \in Orders :
        /\ orders[p].payment_pin = pin
        /\ orders[p].payment_pin_expires_at # None
        /\ orders[p].payment_pin_expires_at > t

\* C30: generate_payment_pin eventually terminates, under fair random
\* draws, whenever at least one PIN value is not held as an unexpired PIN by
\* any stored order, the order being regenerated included; the re-draw loop
\* exits only with a value that passed the uniqueness lookup.
C30_DrawLoopTerminates ==
    /\ [][ (reqs["a"].pc = "drawing" /\ reqs'["a"].pc = "drawn")
             => /\ reqs'["a"].pin = reqs["a"].pin
                /\ ~HeldUnexpired(reqs'["a"].pin, now) ]_vars
    /\ ( reqs["a"].pc = "drawing" /\ \E pin \in PinValues : ~HeldUnexpired(pin, now) )
         ~> reqs["a"].pc = "drawn"

\* the lookup found the drawn value held by an order and the loop drew a
\* value that no order holds
C30_Witness ==
    /\ last.op = "draw_again"
    /\ reqs["a"].pc = "drawing"
    /\ HeldUnexpired(last.pin, now)
    /\ ~HeldUnexpired(reqs["a"].pin, now)
====
